---------------------------- MODULE Spec2Model ----------------------------
(***************************************************************************)
(* Model of portrait_patch.py (Stardew Valley HD Portrait Patcher 1.4.0):  *)
(* the rewrite of a Content Patcher mod directory from PyTK portraits to   *)
(* HD Portraits.                                                           *)
(*                                                                         *)
(* A path is a record [dir, stem, ext]: dir is the sequence of directory   *)
(* segments relative to the mod directory, stem is the file stem split at  *)
(* "_" (the VARIANT_SEPARATOR) into parts, ext is the suffix.  A part or a *)
(* directory segment is a literal word or a Content Patcher token          *)
(* "{{...}}".  The file system is a function from the paths of the files   *)
(* that exist to their parsed contents, all kept in one namespace, so that *)
(* a sidecar and a document of the same path are the same file.            *)
(***************************************************************************)
EXTENDS Integers, Sequences, FiniteSets, TLC

\* ------------------------------------------------------------ bounds
MaxEntries == 3     \* longest Changes list of an initial content.json
MaxRuns == 2        \* runs of the tool on one mod directory
MaxDeps == 3        \* longest Dependencies list fed to update_dependencies

\* ------------------------------------------------------- program constants
STARDEW_PORTRAIT_SIZE == 64
FORMAT == "1.28.0"
PYTK_DEPENDENCY == [UniqueID |-> "Platonymous.Toolkit"]
HD_PORTRAITS_DEPENDENCY == [UniqueID |-> "tlitookilakin.HDPortraits"]
GENERATED_BY == "Generated by Portrait Patcher 1.4.0, by purplexpresso. Licensed under GPLv3."
PATCHED_DIR == "Patched HD Portraits"
hd_portraits == <<"Mods", "HDPortraits">>
hd_portraits_patch == <<"Mods", "HDPortraitsPatch">>

\* An optional value is a set of at most one element: None, or Some(x).
None == {}
Some(x) == {x}
The(opt) == CHOOSE x \in opt : TRUE
OK == "ok"
INTERNAL == "internal"
COPY == "copy"
INDIVIDUAL == "INDIVIDUAL"
GLOBBED == "GLOBBED"

\* The strings the regular expression \{\{[a-zA-Z0-9_./]+\}\} matches.
Tokens == {"{{season}}", "{{outfit}}"}

\* ------------------------------------------------------------ sequences
Last(s) == s[Len(s)]

EndsWith(s, t) ==
    /\ Len(t) <= Len(s)
    /\ SubSeq(s, Len(s) - Len(t) + 1, Len(s)) = t

\* list.insert(i, x) with a 0-based index; an index past the end appends.
ListInsert(s, i, x) ==
    LET k == IF i > Len(s) THEN Len(s) ELSE i
    IN  SubSeq(s, 1, k) \o <<x>> \o SubSeq(s, k + 1, Len(s))

\* list.remove(x): drops the first element equal to x; None when there is
\* none (ValueError).
RECURSIVE ListRemove(_, _)
ListRemove(s, x) ==
    IF s = <<>> THEN None
    ELSE IF Head(s) = x THEN Some(Tail(s))
    ELSE LET r == ListRemove(Tail(s), x)
         IN  IF r = None THEN None ELSE Some(<<Head(s)>> \o The(r))

Count(s, x) == Cardinality({i \in 1..Len(s) : s[i] = x})

RECURSIVE SeqsUpTo(_, _)
SeqsUpTo(S, n) ==
    IF n = 0 THEN {<<>>}
    ELSE LET shorter == SeqsUpTo(S, n - 1)
         IN  shorter \cup {Append(s, x) : s \in {t \in shorter : Len(t) = n - 1}, x \in S}

\* All orders in which a finite set can be enumerated.
Orders(S) ==
    {s \in [1..Cardinality(S) -> S] : \A i, j \in 1..Cardinality(S) : i # j => s[i] # s[j]}

\* ---------------------------------------------------------------- paths
File(d, s, e) == [dir |-> d, stem |-> s, ext |-> e]

\* pathlib with_suffix on a path of one suffix.
WithSuffix(f, e) == [f EXCEPT !.ext = e]

\* copy_dir / file.relative_to(main_dir)
Under(d, f) == [f EXCEPT !.dir = d \o f.dir]

IsFile(disk, f) == f \in DOMAIN disk

\* PurePath(Target).parent.stem
ParentStem(t) == IF t.dir = <<>> THEN "" ELSE Last(t.dir)

\* content_patcher_token.search(portrait_file.stem)
TokenInStem(f) == \E i \in 1..Len(f.stem) : f.stem[i] \in Tokens

TokenInPath(f) ==
    \/ TokenInStem(f)
    \/ \E i \in 1..Len(f.dir) : f.dir[i] \in Tokens

\* A wildcard standing for a whole part matches one or more parts of a stem
\* (the "*" of fnmatch matches any run of characters, "_" included).
RECURSIVE StemMatch(_, _)
StemMatch(pat, s) ==
    IF pat = <<>> THEN s = <<>>
    ELSE IF Head(pat) \in Tokens
         THEN \E k \in 1..Len(s) : StemMatch(Tail(pat), SubSeq(s, k + 1, Len(s)))
         ELSE s # <<>> /\ Head(s) = Head(pat) /\ StemMatch(Tail(pat), Tail(s))

\* A wildcard directory segment matches exactly one segment.
DirMatch(pat, d) ==
    /\ Len(pat) = Len(d)
    /\ \A i \in 1..Len(pat) : pat[i] \in Tokens \/ pat[i] = d[i]

\* content_patch_dir.glob(regex.sub(token, "*", relative path))
Glob(disk, pat) ==
    {f \in DOMAIN disk : /\ f.ext = pat.ext
                         /\ DirMatch(pat.dir, f.dir)
                         /\ StemMatch(pat.stem, f.stem)}

get_variant_metadata_file(portrait_file, variant) ==
    File(portrait_file.dir,
         IF variant = None \/ EndsWith(portrait_file.stem, The(variant))
         THEN portrait_file.stem
         ELSE portrait_file.stem \o The(variant),
         "json")

\* "_".join(stem.split("_")[1:]) or None
TargetVariant(target) ==
    IF Len(target.stem) <= 1 THEN None ELSE Some(Tail(target.stem))

Qualifies_Any(item) == TRUE
Qualifies(item) == ParentStem(item.Target) = "Portraits"

get_file_or_backup_NoBackup(disk, file) == file
get_file_or_backup(disk, file) ==
    LET backup_file == WithSuffix(file, "bak")
    IN  IF IsFile(disk, backup_file) THEN backup_file ELSE file


\* ------------------------------------------------------------ file system
Write(disk, f, data) == (f :> data) @@ disk

\* file.rename(backup_file)
Rename(disk, f, g) ==
    [k \in (DOMAIN disk \ {f}) \cup {g} |-> IF k = g THEN disk[f] ELSE disk[k]]

NeedsBackup(disk, file, copy_dir, force_rewrite) ==
    ~(force_rewrite \/ copy_dir # None \/ IsFile(disk, WithSuffix(file, "bak")))

\* The path _write_and_backup opens for writing.
WriteTarget(file, copy_dir) ==
    WithSuffix(IF copy_dir = None THEN file ELSE Under(The(copy_dir), file), "json")

write_and_backup(disk, file, json_data, copy_dir, force_rewrite) ==
    LET backup_file == WithSuffix(file, "bak")
        kept == IF NeedsBackup(disk, file, copy_dir, force_rewrite)
                THEN Rename(disk, file, backup_file)
                ELSE disk
    IN  Write(kept, WriteTarget(file, copy_dir), json_data)

\* int(pytk_dict["Scale"]) for a Scale n/d >= 0: truncation.
IntOf(scale) == scale.n \div scale.d

\* None when the .pytk.json sidecar of the image does not exist.
create_metadata_json(disk, portrait_file, target_name) ==
    LET pytk_file == WithSuffix(portrait_file, "pytk.json")
    IN  IF ~IsFile(disk, pytk_file) THEN None
        ELSE Some([Size |-> IntOf(disk[pytk_file].Scale) * STARDEW_PORTRAIT_SIZE,
                   Portrait |-> target_name])

UpdatedDependencies_AlwaysAppend(dependencies) ==
    LET added == Append(dependencies, HD_PORTRAITS_DEPENDENCY)
        removed == ListRemove(added, PYTK_DEPENDENCY)
    IN  IF removed = None THEN added ELSE The(removed)

\* The Dependencies list after update_dependencies.
UpdatedDependencies(dependencies) ==
    LET added == IF Count(dependencies, HD_PORTRAITS_DEPENDENCY) = 0
                 THEN Append(dependencies, HD_PORTRAITS_DEPENDENCY)
                 ELSE dependencies
        removed == ListRemove(added, PYTK_DEPENDENCY)
    IN  IF removed = None THEN added ELSE The(removed)

\* defaultdict(list, manifest): a manifest without Dependencies has [].
update_dependencies(manifest_dict) ==
    LET dependencies == IF "Dependencies" \in DOMAIN manifest_dict
                        THEN manifest_dict.Dependencies
                        ELSE <<>>
    IN  ("Dependencies" :> UpdatedDependencies(dependencies))
        @@ ("GeneratedBy" :> GENERATED_BY)
        @@ manifest_dict

\* ------------------------------------------------------------ directories
Name(path) == IF path = <<>> THEN "" ELSE Last(path)

\* pathlib's "/" : joining an empty segment changes nothing.
Join(path, segment) == IF segment = "" THEN path ELSE Append(path, segment)

\* _get_copy_dir with --copy_dir omitted, as main calls it for a directory
\* that is itself a mod folder (main_directory = subdirectory = directory):
\* directory / "Patched HD Portraits" / directory.stem, written here relative
\* to directory, as every path of the file system is.
get_copy_dir(copy_mode, directory) ==
    IF copy_mode
    THEN Some(Join(<<PATCHED_DIR>>, Name(directory)))
    ELSE None

\* dirs_exist_ok = not (source.name in destination.parts)
DirsExistOk(source, destination) ==
    ~(\E i \in 1..Len(destination) : destination[i] = Name(source))

Prefixes(path) == {SubSeq(path, 1, k) : k \in 0..Len(path)}

Children(tree, src) == {d \in tree : Len(d) = Len(src) + 1 /\ SubSeq(d, 1, Len(src)) = src}

\* shutil.copytree(src, dst, ignore=<every file>, dirs_exist_ok): the entries
\* of src are listed, then dst is made (FileExistsError unless dirs_exist_ok),
\* then each listed directory is copied in turn; a failure below is collected
\* and raised at the end.  tree is the set of directories, relative to the
\* mod directory.
RECURSIVE CopyTree(_, _, _, _)
RECURSIVE CopyEntries(_, _, _, _, _)
CopyTree(tree, src, dst, exist_ok) ==
    IF dst \in tree /\ ~exist_ok
    THEN [tree |-> tree, err |-> "FileExistsError"]
    ELSE CopyEntries([tree |-> tree \cup Prefixes(dst), err |-> OK],
                     Children(tree, src), src, dst, exist_ok)

CopyEntries(st, entries, src, dst, exist_ok) ==
    IF entries = {} THEN st
    ELSE LET e == CHOOSE x \in entries : TRUE
             sub == CopyTree(st.tree, e, dst \o <<Last(e)>>, exist_ok)
         IN  CopyEntries([tree |-> sub.tree,
                          err |-> IF st.err # OK THEN st.err ELSE sub.err],
                         entries \ {e}, src, dst, exist_ok)

\* _clone_dir_tree(source, destination): source is the --path argument as
\* typed, copy_dir the destination relative to it.
clone_dir_tree(tree, source, copy_dir) ==
    CopyTree(tree, <<>>, copy_dir, DirsExistOk(source, source \o copy_dir))


\* ------------------------------------------------------------ the fixture
ContentJson == File(<<>>, <<"content">>, "json")
ManifestJson == File(<<>>, <<"manifest">>, "json")

Target(d, s) == [dir |-> d, stem |-> s]

\* The Change Entries an initial content.json is made of.  PatchMode is an
\* optional field.
EntryPool ==
    { \* not a portrait: passed through
      [Action |-> "EditImage", Target |-> Target(<<"Characters">>, <<"Abigail">>),
       FromFile |-> File(<<"assets">>, <<"Sprite">>, "png"), PatchMode |-> Some("Replace")],
      \* an image on disk, the variant appended to its sidecar's name
      [Action |-> "Load", Target |-> Target(<<"Portraits">>, <<"Abigail", "Beach">>),
       FromFile |-> File(<<"assets">>, <<"Abigail">>, "png"), PatchMode |-> Some("Replace")],
      \* an image on disk without a .pytk.json
      [Action |-> "Load", Target |-> Target(<<"Portraits">>, <<"Abigail", "Night">>),
       FromFile |-> File(<<"assets">>, <<"Abigail", "Night">>, "png"), PatchMode |-> None],
      \* a token in the file name
      [Action |-> "Load", Target |-> Target(<<"Portraits">>, <<"Abigail", "Beach">>),
       FromFile |-> File(<<"assets">>, <<"Abigail", "{{outfit}}">>, "png"), PatchMode |-> Some("Replace")],
      \* a token in a directory of the path
      [Action |-> "Load", Target |-> Target(<<"Portraits">>, <<"Abigail">>),
       FromFile |-> File(<<"{{season}}">>, <<"Abigail">>, "png"), PatchMode |-> None],
      \* an image in the mod directory itself, named as the manifest is
      [Action |-> "Load", Target |-> Target(<<"Characters", "Portraits">>, <<"Abigail">>),
       FromFile |-> File(<<>>, <<"manifest">>, "png"), PatchMode |-> None] }

\* Each entry carries its place in the original list as its LogName.
Named(entries) ==
    [i \in 1..Len(entries) |->
        [Action |-> entries[i].Action, Target |-> entries[i].Target,
         FromFile |-> entries[i].FromFile, PatchMode |-> entries[i].PatchMode,
         LogName |-> i]]

Other == [UniqueID |-> "Pathoschild.ContentPatcher"]

Other2 == [UniqueID |-> "spacechase0.JsonAssets"]

Manifest(dependencies) == [Name |-> "Seasonal Abigail", Dependencies |-> dependencies]

Image == [Image |-> TRUE]
Legacy(n, d) == [Scale |-> [n |-> n, d |-> d]]

\* The mod directory before the first run: images, their .pytk.json
\* sidecars (Scale 2, 1.5 and 1), and the two documents.
InitialDisk(entries, dependencies) ==
    (File(<<"assets">>, <<"Abigail">>, "png") :> Image)
    @@ (File(<<"assets">>, <<"Abigail">>, "pytk.json") :> Legacy(2, 1))
    @@ (File(<<"assets">>, <<"Abigail", "Beach">>, "png") :> Image)
    @@ (File(<<"assets">>, <<"Abigail", "Beach">>, "pytk.json") :> Legacy(3, 2))
    @@ (File(<<"assets">>, <<"Abigail", "Night">>, "png") :> Image)
    @@ (File(<<"spring">>, <<"Abigail">>, "png") :> Image)
    @@ (File(<<"spring">>, <<"Abigail">>, "pytk.json") :> Legacy(1, 1))
    @@ (File(<<>>, <<"manifest">>, "png") :> Image)
    @@ (File(<<>>, <<"manifest">>, "pytk.json") :> Legacy(2, 1))
    @@ (ContentJson :> [Format |-> "1.19.0", Changes |-> Named(entries)])
    @@ (ManifestJson :> Manifest(dependencies))

InitialTree == {<<>>, <<"assets">>, <<"spring">>}


\* ------------------------------------------------- the rewrite of one entry
PopPatchMode_Kept(item) == item
\* metadata_item.pop("PatchMode", None)
PopPatchMode(item) == [item EXCEPT !.PatchMode = None]

MetadataFile(item) == get_variant_metadata_file(item.FromFile, TargetVariant(item.Target))

\* hd_portraits_patch / portrait_name.stem, the Target of the EditImage entry
\* and the Portrait of the sidecars.
PatchTarget(item) == Target(hd_portraits_patch, item.Target.stem)

\* metadata_item after lines 195-199
LoadItem(item) ==
    [PopPatchMode(item) EXCEPT !.Action = "Load",
                               !.Target = Target(hd_portraits, item.Target.stem),
                               !.FromFile = MetadataFile(item)]

\* portrait_item after lines 193 and 201-205
PortraitItem(item) ==
    [PopPatchMode(item) EXCEPT !.Action = "EditImage",
                               !.Target = PatchTarget(item),
                               !.FromFile = item.FromFile]

\* content_dict["Changes"].insert(2 * index, portrait_item)
InsertIndex(index) == 2 * index

Bump(count, m) == (m :> (IF m \in DOMAIN count THEN count[m] + 1 ELSE 1)) @@ count

Written(st, kind, metadata_file, image, data, copy_dir) ==
    [disk |-> write_and_backup(st.disk, metadata_file, data, copy_dir, TRUE),
     parsed |-> st.parsed,
     glob |-> IF kind = GLOBBED THEN Bump(st.glob, metadata_file) ELSE st.glob,
     indiv |-> IF kind = INDIVIDUAL THEN Bump(st.indiv, metadata_file) ELSE st.indiv,
     writes |-> st.writes \cup {[meta |-> metadata_file, image |-> image, data |-> data,
                                 kind |-> kind, at |-> WriteTarget(metadata_file, copy_dir)]}]

Record(st, metadata_file, kind) ==
    [st EXCEPT !.parsed = (metadata_file :> kind) @@ st.parsed]

\* if globbed_metadata_file.resolve() in parsed_metadata_files: continue
GlobSkips(parsed, metadata_file) == metadata_file \in DOMAIN parsed

IndividualSkips_Never(parsed, metadata_file) == FALSE
\* if parsed_metadata_files.get(metadata_file.resolve()) is FileParsed.INDIVIDUAL: continue
IndividualSkips(parsed, metadata_file) ==
    metadata_file \in DOMAIN parsed /\ parsed[metadata_file] = INDIVIDUAL

\* The body of the for loop of lines 215-239, over the matches in the order
\* the glob yields them.
RECURSIVE GlobLoop(_, _, _, _, _)
GlobLoop(matches, st, variant, target_name, copy_dir) ==
    IF matches = <<>> THEN st
    ELSE LET globbed_portrait_file == Head(matches)
             globbed_metadata_file == get_variant_metadata_file(globbed_portrait_file, variant)
             recorded == Record(st, globbed_metadata_file, GLOBBED)
             globbed_metadata_json == create_metadata_json(st.disk, globbed_portrait_file, target_name)
             next == IF GlobSkips(st.parsed, globbed_metadata_file) THEN st
                     ELSE IF globbed_metadata_json = None THEN recorded
                     ELSE Written(recorded, GLOBBED, globbed_metadata_file, globbed_portrait_file,
                                  The(globbed_metadata_json), copy_dir)
         IN  GlobLoop(Tail(matches), next, variant, target_name, copy_dir)

\* Lines 241-260.
IndividualFile(st, portrait_file, metadata_file, target_name, copy_dir) ==
    LET recorded == Record(st, metadata_file, INDIVIDUAL)
        metadata_json == create_metadata_json(st.disk, portrait_file, target_name)
    IN  IF IndividualSkips(st.parsed, metadata_file) THEN st
        ELSE IF metadata_json = None THEN recorded
        ELSE Written(recorded, INDIVIDUAL, metadata_file, portrait_file,
                     The(metadata_json), copy_dir)

\* if content_patcher_token.search(portrait_file.stem)
IsTemplate(portrait_file) == TokenInStem(portrait_file)


\* ------------------------------------------------------------------ state
VARIABLES
    directory,              \* the --path argument as typed, split into its parts
    disk,                   \* the files of the mod directory and their contents
    tree,                   \* the directories of the mod directory
    pc,                     \* "idle", or "loop" inside content_patcher_portraits
    copy_dir,               \* the run's copy_dir argument
    content_file,           \* the file the patch document was read from
    content_dict,           \* the patch document being rewritten
    loaded,                 \* content_dict["Changes"].copy(), as loaded
    index,                  \* the entries of loaded already visited
    position,               \* where each loaded entry now is in content_dict["Changes"]
    parsed_metadata_files,  \* the tracking set
    globWrites,             \* sidecar writes of this run by glob expansion, per path
    indivWrites,            \* sidecar writes of this run by individual processing
    last,                   \* what the last step of the loop did
    runs,                   \* the runs so far: mode, outcome, documents afterwards
    run_start,              \* disk when the current (or last) run began
    original,               \* disk before the first run
    manifest_arg,           \* update_dependencies alone: the manifest given
    manifest_out            \* update_dependencies alone: the results so far

vars == <<directory, disk, tree, pc, copy_dir, content_file, content_dict, loaded, index,
          position, parsed_metadata_files, globWrites, indivWrites, last, runs,
          run_start, original, manifest_arg, manifest_out>>

Empty == [x \in {} |-> 0]

NoStep == [index |-> -1, qualifies |-> FALSE, before |-> Empty, writes |-> {}]

Directories == {<<"Mods", "MyMod">>, <<>>}

Init ==
    /\ directory \in Directories
    /\ \E entries \in SeqsUpTo(EntryPool, MaxEntries) :
          disk = InitialDisk(entries, <<Other, PYTK_DEPENDENCY>>)
    /\ tree = InitialTree
    /\ pc = "idle"
    /\ copy_dir = None
    /\ content_file = ContentJson
    /\ content_dict = disk[ContentJson]
    /\ loaded = <<>>
    /\ index = 0
    /\ position = <<>>
    /\ parsed_metadata_files = Empty
    /\ globWrites = Empty
    /\ indivWrites = Empty
    /\ last = NoStep
    /\ runs = <<>>
    /\ run_start = disk
    /\ original = disk
    /\ manifest_arg = <<>>
    /\ manifest_out = <<>>

\* A finished run: how it ended, the two documents of the mod directory
\* afterwards and the files it read them from.
Outcome(mode, outcome, d, content_from, manifest_from) ==
    [mode |-> mode, outcome |-> outcome, content |-> d[ContentJson],
     manifest |-> d[ManifestJson], content_from |-> content_from,
     manifest_from |-> manifest_from]

\* Lines 163-169: the document is loaded and the loop begins.
Load ==
    /\ content_file' = get_file_or_backup(disk, ContentJson)
    /\ content_dict' = disk[content_file']
    /\ loaded' = content_dict'.Changes
    /\ index' = 0
    /\ position' = [i \in 1..Len(loaded') |-> i]
    /\ parsed_metadata_files' = Empty
    /\ globWrites' = Empty
    /\ indivWrites' = Empty
    /\ last' = NoStep
    /\ run_start' = disk
    /\ pc' = "loop"

\* main, --mode internal: content_patcher_portraits(directory, None, ...)
StartInternal ==
    /\ pc = "idle"
    /\ Len(runs) < MaxRuns
    /\ copy_dir' = get_copy_dir(FALSE, directory)
    /\ Load
    /\ UNCHANGED <<directory, disk, tree, runs, original, manifest_arg, manifest_out>>

\* main, --mode copy: the directory tree is cloned first (lines 161-162).
StartCopy ==
    /\ pc = "idle"
    /\ Len(runs) < MaxRuns
    /\ copy_dir' = get_copy_dir(TRUE, directory)
    /\ LET cloned == clone_dir_tree(tree, directory, The(copy_dir'))
       IN  /\ tree' = cloned.tree
           /\ \/ /\ cloned.err = OK
                 /\ Load
                 /\ UNCHANGED runs
              \/ /\ cloned.err # OK
                 /\ runs' = Append(runs, Outcome(COPY, cloned.err, disk, None, None))
                 /\ run_start' = disk
                 /\ UNCHANGED <<pc, content_file, content_dict, loaded, index, position,
                                parsed_metadata_files, globWrites, indivWrites, last>>
    /\ UNCHANGED <<directory, disk, original, manifest_arg, manifest_out>>

\* One iteration of the for loop of line 171 (lines 172-260).
LoopStep ==
    /\ pc = "loop"
    /\ index < Len(loaded)
    /\ LET metadata_item == loaded[index + 1]
           changes == content_dict.Changes
           at == InsertIndex(index)
           k == IF at > Len(changes) THEN Len(changes) ELSE at
           st0 == [disk |-> disk, parsed |-> parsed_metadata_files, glob |-> globWrites,
                   indiv |-> indivWrites, writes |-> {}]
           portrait_file == metadata_item.FromFile
       IN  \/ /\ ~Qualifies(metadata_item)
              /\ last' = [index |-> index, qualifies |-> FALSE,
                          before |-> parsed_metadata_files, writes |-> {}]
              /\ UNCHANGED <<disk, content_dict, position, parsed_metadata_files,
                             globWrites, indivWrites>>
           \/ /\ Qualifies(metadata_item)
              /\ content_dict' =
                    [content_dict EXCEPT !.Changes =
                        ListInsert([changes EXCEPT ![position[index + 1]] = LoadItem(metadata_item)],
                                   at, PortraitItem(metadata_item))]
              /\ position' = [i \in DOMAIN position |->
                                 IF position[i] > k THEN position[i] + 1 ELSE position[i]]
              /\ \E st \in
                    IF IsTemplate(portrait_file)
                    THEN {GlobLoop(matches, st0, TargetVariant(metadata_item.Target),
                                   PatchTarget(metadata_item), copy_dir) :
                             matches \in Orders(Glob(disk, portrait_file))}
                    ELSE IF IsFile(disk, portrait_file)
                    THEN {IndividualFile(st0, portrait_file, MetadataFile(metadata_item),
                                         PatchTarget(metadata_item), copy_dir)}
                    ELSE {st0} :
                    /\ disk' = st.disk
                    /\ parsed_metadata_files' = st.parsed
                    /\ globWrites' = st.glob
                    /\ indivWrites' = st.indiv
                    /\ last' = [index |-> index, qualifies |-> TRUE,
                                before |-> parsed_metadata_files, writes |-> st.writes]
    /\ index' = index + 1
    /\ UNCHANGED <<directory, tree, pc, copy_dir, content_file, loaded, runs, run_start,
                   original, manifest_arg, manifest_out>>

\* Lines 262-279: the Format stamp, the patch document and the manifest.
Finish ==
    /\ pc = "loop"
    /\ index = Len(loaded)
    /\ LET stamped == ("Format" :> FORMAT) @@ content_dict
           disk1 == write_and_backup(disk, content_file, stamped, copy_dir, FALSE)
           manifest_file == get_file_or_backup(disk1, ManifestJson)
           manifest_dict == update_dependencies(disk1[manifest_file])
       IN  /\ content_dict' = stamped
           /\ disk' = write_and_backup(disk1, manifest_file, manifest_dict, copy_dir, FALSE)
           /\ runs' = Append(runs, Outcome(IF copy_dir = None THEN INTERNAL ELSE COPY, OK, disk',
                                           Some(content_file), Some(manifest_file)))
    /\ pc' = "idle"
    /\ UNCHANGED <<directory, tree, copy_dir, content_file, loaded, index, position,
                   parsed_metadata_files, globWrites, indivWrites, last, run_start,
                   original, manifest_arg, manifest_out>>

Next == StartInternal \/ StartCopy \/ LoopStep \/ Finish

Spec == Init /\ [][Next]_vars


\* ------------------------------------------- update_dependencies on its own
DependencyPool == {PYTK_DEPENDENCY, HD_PORTRAITS_DEPENDENCY, Other, Other2}

InitDeps ==
    /\ directory = <<"Mods", "MyMod">>
    /\ disk = InitialDisk(<<>>, <<Other, PYTK_DEPENDENCY>>)
    /\ tree = InitialTree
    /\ pc = "idle"
    /\ copy_dir = None
    /\ content_file = ContentJson
    /\ content_dict = disk[ContentJson]
    /\ loaded = <<>>
    /\ index = 0
    /\ position = <<>>
    /\ parsed_metadata_files = Empty
    /\ globWrites = Empty
    /\ indivWrites = Empty
    /\ last = NoStep
    /\ runs = <<>>
    /\ run_start = disk
    /\ original = disk
    /\ manifest_arg \in {Manifest(d) : d \in SeqsUpTo(DependencyPool, MaxDeps)}
                        \cup {[Name |-> "Seasonal Abigail"]}
    /\ manifest_out = <<>>

\* update_dependencies applied to the manifest, then to its own result.
UpdateManifest ==
    /\ Len(manifest_out) < MaxRuns
    /\ manifest_out' = Append(manifest_out,
                              update_dependencies(IF manifest_out = <<>> THEN manifest_arg
                                                  ELSE Last(manifest_out)))
    /\ UNCHANGED <<directory, disk, tree, pc, copy_dir, content_file, content_dict, loaded,
                   index, position, parsed_metadata_files, globWrites, indivWrites, last,
                   runs, run_start, original, manifest_arg>>

NextDeps == UpdateManifest

SpecDeps == InitDeps /\ [][NextDeps]_vars


\* ----------------------------------------------------------------- claims
\* The Changes list as it stands: in the loop, and in the document the last
\* completed run wrote.
Rewriting == pc = "loop"
Completed == pc = "idle" /\ runs # <<>> /\ Last(runs).outcome = OK
OutChanges ==
    IF pc = "loop" THEN content_dict.Changes
    ELSE disk[WriteTarget(ContentJson, copy_dir)].Changes

\* An entry the claims call qualifying: its Target's parent is "Portraits".
IsPortrait(item) == item.Target.dir # <<>> /\ Last(item.Target.dir) = "Portraits"
Portraits == {i \in 1..Len(loaded) : IsPortrait(loaded[i])}
Visited == {i \in 1..Len(loaded) : i <= index}
EntriesOf(i) == {j \in 1..Len(OutChanges) : OutChanges[j].LogName = i}

\* C1: every Change Entry whose Target parent is "Portraits" has become
\* exactly two entries of the output, one "Load" and one "EditImage", neither
\* with a PatchMode; an input of n entries of which p qualify gives n + p.
C1_TwoEntriesPerPortrait ==
    (Rewriting \/ Completed) =>
        /\ Len(OutChanges) = Len(loaded) + Cardinality(Portraits \cap Visited)
        /\ \A i \in Portraits \cap Visited :
              /\ Cardinality(EntriesOf(i)) = 2
              /\ {OutChanges[j].Action : j \in EntriesOf(i)} = {"Load", "EditImage"}
              /\ \A j \in EntriesOf(i) : OutChanges[j].PatchMode = None

C1_Witness ==
    /\ Completed
    /\ Len(loaded) = 3
    /\ Cardinality(Portraits) = 2
    /\ Len(OutChanges) = 5
    /\ \E i \in Portraits : loaded[i].PatchMode # None

\* C2: the EditImage entry of a qualifying entry stands immediately before
\* the entry itself (by then the Load entry), whatever precedes it, so each
\* Load/EditImage pair is adjacent.
C2_EditImageBeforeLoad ==
    Rewriting =>
        \A i \in Portraits \cap Visited :
            \E j \in 1..(Len(OutChanges) - 1) :
                /\ OutChanges[j].LogName = i /\ OutChanges[j].Action = "EditImage"
                /\ OutChanges[j + 1].LogName = i /\ OutChanges[j + 1].Action = "Load"

IsPassedThrough(item) == item.LogName \notin Portraits
IsInert(item) == ~IsPortrait(item)

C3_State ==
    (Rewriting \/ Completed) => SelectSeq(OutChanges, IsPassedThrough) = SelectSeq(loaded, IsInert)

C3_Step ==
    (pc = "loop" /\ index < Len(loaded) /\ index' = index + 1 /\ ~IsPortrait(loaded[index + 1]))
        => /\ disk' = disk
           /\ parsed_metadata_files' = parsed_metadata_files

C4_Idempotent ==
    \A k \in 2..Len(runs) :
        (runs[k - 1].mode = INTERNAL /\ runs[k].mode = INTERNAL) =>
            /\ runs[k].content = runs[k - 1].content
            /\ runs[k].manifest = runs[k - 1].manifest
            /\ runs[k].content_from = Some(WithSuffix(ContentJson, "bak"))
            /\ runs[k].manifest_from = Some(WithSuffix(ManifestJson, "bak"))

C4_Witness ==
    /\ Len(runs) = 2
    /\ runs[1].mode = INTERNAL /\ runs[2].mode = INTERNAL
    /\ runs[2].content # original[ContentJson]
    /\ Cardinality(Portraits) >= 1

UnderCopyDir(f) ==
    /\ copy_dir # None
    /\ Len(f.dir) >= Len(The(copy_dir))
    /\ SubSeq(f.dir, 1, Len(The(copy_dir))) = The(copy_dir)

\* C5: the original of each document is never lost: its .bak, once there,
\* holds what the .json held before the first run (and until then the .json
\* still does); a copy-mode run changes or removes no file it found and
\* writes only under the output directory.
C5_OriginalKept ==
    /\ \A doc \in {ContentJson, ManifestJson} :
          IF IsFile(disk, WithSuffix(doc, "bak"))
          THEN disk[WithSuffix(doc, "bak")] = original[doc]
          ELSE IsFile(disk, doc) /\ disk[doc] = original[doc]
    /\ copy_dir # None =>
          /\ \A f \in DOMAIN run_start :
                UnderCopyDir(f) \/ (IsFile(disk, f) /\ disk[f] = run_start[f])
          /\ \A f \in DOMAIN disk \ DOMAIN run_start : UnderCopyDir(f)


\* The Dependencies list update_dependencies was given the k-th time, and
\* the one it returned.
DepsIn(k) ==
    LET given == IF k = 1 THEN manifest_arg ELSE manifest_out[k - 1]
    IN  IF "Dependencies" \in DOMAIN given THEN given.Dependencies ELSE <<>>
DepsOut(k) == manifest_out[k].Dependencies

\* The list without its first source-framework record, if it has one.
WithoutFirstSource(deps) ==
    LET at == {i \in 1..Len(deps) : deps[i] = PYTK_DEPENDENCY}
    IN  IF at = {} THEN deps
        ELSE LET first == CHOOSE i \in at : \A j \in at : i <= j
             IN  SubSeq(deps, 1, first - 1) \o SubSeq(deps, first + 1, Len(deps))
IsOther(d) == d \notin {PYTK_DEPENDENCY, HD_PORTRAITS_DEPENDENCY}

\* C6 as stated: the result holds no source-framework record, holds the
\* target record exactly once, keeps the others in order, and the rewrite of
\* the result changes nothing.
C6_NoSourceTargetOnce ==
    \A k \in 1..Len(manifest_out) :
        /\ Count(DepsOut(k), PYTK_DEPENDENCY) = 0
        /\ Count(DepsOut(k), HD_PORTRAITS_DEPENDENCY) = 1
        /\ SelectSeq(DepsOut(k), IsOther) = SelectSeq(DepsIn(k), IsOther)
        /\ k >= 2 => DepsOut(k) = DepsIn(k)

\* C6 amended: only the first source-framework record is removed; the target
\* record is appended only if absent and those present are kept; every
\* record but the removed one keeps its order; the rewrite of the result
\* changes nothing when the list given held at most one source record.
C6_FirstSourceRemoved ==
    \A k \in 1..Len(manifest_out) :
        /\ Count(DepsOut(k), PYTK_DEPENDENCY) =
              IF Count(DepsIn(k), PYTK_DEPENDENCY) = 0 THEN 0
              ELSE Count(DepsIn(k), PYTK_DEPENDENCY) - 1
        /\ DepsOut(k) = WithoutFirstSource(DepsIn(k))
                         \o (IF Count(DepsIn(k), HD_PORTRAITS_DEPENDENCY) = 0
                             THEN <<HD_PORTRAITS_DEPENDENCY>> ELSE <<>>)
        /\ (k >= 2 /\ Count(DepsIn(k - 1), PYTK_DEPENDENCY) <= 1) => DepsOut(k) = DepsIn(k)

C6_Witness ==
    /\ Len(manifest_out) >= 2
    /\ DepsIn(1) = <<Other, PYTK_DEPENDENCY, Other2>>
    /\ DepsOut(2) = <<Other, Other2, HD_PORTRAITS_DEPENDENCY>>

LastItem == loaded[last.index + 1]
HasLegacy(f) == IsFile(disk, WithSuffix(f, "pytk.json"))

\* C7: after the step for a qualifying entry whose FromFile has a token
\* anywhere in its path, every file the derived glob matches that has a
\* .pytk.json and whose sidecar the tracking set did not record as GLOBBED
\* has had its sidecar written.
C7_TemplateExpands ==
    (Rewriting /\ last.index >= 0 /\ IsPortrait(LastItem) /\ TokenInPath(LastItem.FromFile)) =>
        \A f \in Glob(disk, LastItem.FromFile) :
            LET m == get_variant_metadata_file(f, TargetVariant(LastItem.Target))
            IN  (HasLegacy(f) /\ ~(m \in DOMAIN last.before /\ last.before[m] = GLOBBED))
                    => \E w \in last.writes : w.meta = m

EditImageTargets ==
    {OutChanges[j].Target : j \in {j \in EntriesOf(last.index + 1) : OutChanges[j].Action = "EditImage"}}

\* C8: a written sidecar has Size = Scale * 64 for the Scale of the legacy
\* sidecar of its image and Portrait = the Target of the EditImage entry of
\* the Change Entry that caused the write; without a legacy sidecar nothing
\* is written.
C8_SizeIsScaleTimes64 ==
    (Rewriting /\ last.index >= 0) =>
        \A w \in last.writes :
            /\ HasLegacy(w.image)
            /\ LET scale == disk[WithSuffix(w.image, "pytk.json")].Scale
               IN  w.data.Size * scale.d = scale.n * STARDEW_PORTRAIT_SIZE
            /\ EditImageTargets = {w.data.Portrait}
            /\ disk[w.at] = w.data

\* C9: the clone into the output directory under the mod directory never
\* raises, first run or rerun, and never copies the output into itself.
C9_CloneNeverFails ==
    /\ \A k \in 1..Len(runs) : runs[k].outcome = OK
    /\ \A d \in tree : Cardinality({i \in 1..Len(d) : d[i] = PATCHED_DIR}) <= 1

\* C10: in one run a sidecar path is written at most once by glob expansion
\* and at most once by individual processing, and a path written is a path
\* the tracking set holds.
C10_AtMostOnce ==
    /\ \A m \in DOMAIN globWrites : globWrites[m] <= 1 /\ m \in DOMAIN parsed_metadata_files
    /\ \A m \in DOMAIN indivWrites :
          /\ indivWrites[m] <= 1
          /\ m \in DOMAIN parsed_metadata_files
          /\ parsed_metadata_files[m] = INDIVIDUAL
    /\ \A w \in last.writes : w.meta \notin DOMAIN last.before \/ last.before[w.meta] = GLOBBED

C10_Witness ==
    /\ Rewriting
    /\ index = 3
    /\ \E m \in DOMAIN globWrites : m \in DOMAIN indivWrites
    /\ last.qualifies /\ last.writes = {}
    /\ IsFile(disk, LastItem.FromFile) \/ TokenInStem(LastItem.FromFile)

=============================================================================
